---- MODULE Spec2Model ----
(***************************************************************************)
(* rag-labs: the query pipeline of the RAG API.                            *)
(*                                                                         *)
(*   handlers.QueryHandler.Handle -> services.RAGService.Query             *)
(*     -> TEIService.GetEmbedding      (embedding service, HTTP)           *)
(*     -> WeaviateService.SearchSimilar (vector search, GraphQL)           *)
(*     -> buildContext / promptTemplate (pure)                             *)
(*     -> VLLMService.GenerateResponse (generation service)                *)
(*   server.customErrorHandler turns a returned error into the response.   *)
(*                                                                         *)
(* Text is a sequence of tokens.  A token is one character, or one of the  *)
(* literal pieces the program writes (the pieces of promptTemplate, the    *)
(* chunk marker, the sentinel).  A Go error is the chain of its messages,  *)
(* outermost first: fmt.Errorf("m: %w", e) puts "m" in front of e's chain. *)
(***************************************************************************)
EXTENDS Integers, Sequences, FiniteSets, TLC

VARIABLES
    req,        \* the HTTP request body the handler is serving
    ctxDone,    \* the request context's Done signal (c.Context())
    inv,        \* the invocation: Handle's and Query's locals and position
    lastResp,   \* the downstream response most recently received
    response,   \* the HTTP response written for the request
    conc        \* invocations served at the same time by the one RAGService

vars == <<req, ctxDone, inv, lastResp, response, conc>>

-----------------------------------------------------------------------------
(* Bounds of the model *)

MaxDim == 1         \* longest embedding vector the embedding service returns
MaxBatch == 1       \* longest batch in an embedding response
MaxChoices == 2     \* most choices in a generation response
MaxAvail == 4       \* matches the search service holds for any vector

(* Program constants *)

DefaultSearchLimit == 3
StatusOK == 200
StatusBadRequest == 400
StatusInternalServerError == 500

CollectionName == "LlamaIndex"

-----------------------------------------------------------------------------
(* Helpers *)

SeqsUpTo(S, n) == UNION {[1..k -> S] : k \in 0..n}

Min(a, b) == IF a <= b THEN a ELSE b

Last(s) == s[Len(s)]

-----------------------------------------------------------------------------
(* Go errors *)

NilErr == [fiberCode |-> 0, chain |-> <<>>]

\* errors.New(msg)
NewErr(msg) == [fiberCode |-> 0, chain |-> <<msg>>]

\* fmt.Errorf(msg + ": %w", e)
Wrap(msg, e) == [fiberCode |-> 0, chain |-> <<msg>> \o e.chain]

\* fiber.NewError(code, msg)
FiberError(code, msg) == [fiberCode |-> code, chain |-> <<msg>>]

\* a (value, error) pair returned by a service method
Ok(v) == [val |-> v, err |-> NilErr]
Fail(zero, e) == [val |-> zero, err |-> e]

-----------------------------------------------------------------------------
(* Text *)

SP == " "
ChunkMarker == "--- Context Chunk"
Sentinel == "No relevant context found."

\* the query strings a client posts: empty, blank, plain, padded, and one
\* that quotes the chunk marker
Queries ==
    { <<>>, <<SP>>, <<"q">>, <<SP, "q", SP>>, <<"q", ChunkMarker>> }

\* the text values stored in the collection
Texts == { <<>>, <<"a">>, <<ChunkMarker, "b">> }

\* answers the generation service produces
Contents == { "Both movies are science fiction.", "I don't know." }

\* the float64 value the embedding service produces.  A value is its
\* significand as an integer; float64 carries 3 bits of it here and
\* float32 carries 2, so that 5 does not survive the narrowing.
FloatVals == {5}

\* float32(v): round to nearest, ties to even, on the narrower significand
Float32(v) ==
    IF v < 4 THEN v
    ELSE LET q == v \div 2
             r == v % 2
         IN  IF r = 0 THEN v
             ELSE IF q % 2 = 0 THEN 2 * q ELSE 2 * (q + 1)

Digit(d) == <<"0", "1", "2", "3", "4", "5", "6", "7", "8", "9">>[d + 1]

\* the %d verb of fmt.Sprintf, on n >= 0
RECURSIVE Itoa(_)
Itoa(n) == IF n < 10 THEN <<Digit(n)>> ELSE Itoa(n \div 10) \o <<Digit(n % 10)>>

-----------------------------------------------------------------------------
(* Decoded JSON values (interface{}): every value has the same shape, with *)
(* the fields its type does not use left empty.  A map is a sequence of    *)
(* key/value pairs with distinct keys.                                     *)

JNull == [t |-> "null", s |-> <<>>, l |-> <<>>, m |-> <<>>]
JStr(x) == [t |-> "string", s |-> x, l |-> <<>>, m |-> <<>>]
JList(x) == [t |-> "list", s |-> <<>>, l |-> x, m |-> <<>>]
JMap(x) == [t |-> "map", s |-> <<>>, l |-> <<>>, m |-> x]
KV(k, v) == [k |-> k, v |-> v]

HasKey(m, k) == \E i \in 1..Len(m) : m[i].k = k

\* m[k] on a Go map: the value, or nil when the key is absent
Lookup(m, k) ==
    IF HasKey(m, k)
    THEN m[CHOOSE i \in 1..Len(m) : m[i].k = k].v
    ELSE JNull

-----------------------------------------------------------------------------
(* Embedding service (TEI) *)

CtxCanceled == "context canceled"
NetCauses == {"timeout"}

\* models.TEIRequest built by GetEmbedding
TEIRequest(text) == [inputs |-> <<text>>, truncate |-> TRUE, normalize |-> TRUE]

TEIResp(kind, cause, status, decodable, body) ==
    [kind |-> kind, cause |-> cause, status |-> status,
     decodable |-> decodable, body |-> body]

Vectors == SeqsUpTo(FloatVals, MaxDim)
Batches == SeqsUpTo(Vectors, MaxBatch)

\* what httpClient.Do(req) and the body decoder can yield for a request
\* made with http.NewRequestWithContext(ctx, ...): once ctx is done the
\* transport aborts the exchange and returns ctx's error
TEIOutcomes(done) ==
    IF done
    THEN {TEIResp("error", CtxCanceled, 0, FALSE, <<>>)}
    ELSE {TEIResp("error", c, 0, FALSE, <<>>) : c \in NetCauses}
         \cup {TEIResp("http", "", 503, FALSE, <<>>)}
         \cup {TEIResp("http", "", StatusOK, FALSE, <<>>)}
         \cup {TEIResp("http", "", StatusOK, TRUE, b) : b \in Batches}

\* GetEmbedding with checks on the batch only (mutant)
GetEmbeddingFirstUnchecked(resp) ==
    IF resp.kind = "error"
    THEN Fail(<<>>, Wrap("TEI request failed", NewErr(resp.cause)))
    ELSE IF resp.status # StatusOK
    THEN Fail(<<>>, NewErr("TEI server returned status"))
    ELSE IF ~resp.decodable
    THEN Fail(<<>>, Wrap("failed to decode TEI response", NewErr("json")))
    ELSE IF Len(resp.body) = 0
    THEN Fail(<<>>, NewErr("empty embedding response from TEI"))
    ELSE Ok(resp.body[1])

\* TEIService.GetEmbedding, from the return of httpClient.Do on
GetEmbedding(resp) ==
    IF resp.kind = "error"
    THEN Fail(<<>>, Wrap("TEI request failed", NewErr(resp.cause)))
    ELSE IF resp.status # StatusOK
    THEN Fail(<<>>, NewErr("TEI server returned status"))
    ELSE IF ~resp.decodable
    THEN Fail(<<>>, Wrap("failed to decode TEI response", NewErr("json")))
    ELSE IF Len(resp.body) = 0 \/ Len(resp.body[1]) = 0
    THEN Fail(<<>>, NewErr("empty embedding response from TEI"))
    ELSE Ok(resp.body[1])

-----------------------------------------------------------------------------
(* Vector search service (Weaviate) *)

\* the GraphQL Get query SearchSimilar builds
SearchRequest(embedding) ==
    [className |-> CollectionName,
     fields |-> <<"text">>,
     nearVector |-> [i \in 1..Len(embedding) |-> Float32(embedding[i])],
     limit |-> DefaultSearchLimit]

WeaviateResp(kind, cause, data) == [kind |-> kind, cause |-> cause, data |-> data]

\* one element of the class list: not an object, an object without text,
\* an object with a text
Items ==
    {JNull, JMap(<<>>)} \cup {JMap(<<KV("text", JStr(t))>>) : t \in Texts}

\* how many matches the service returns for a query
EffLimit(request) == Min(request.limit, MaxAvail)

\* resp.Data of a GraphQL response that has no usable class list
BadData(request) ==
    { <<>>,
      <<KV("Get", JNull)>>,
      <<KV("Get", JMap(<<>>))>>,
      <<KV("Get", JMap(<<KV(request.className, JNull)>>))>> }

\* the class lists the service can return, by the number of matches asked
ClassLists == [n \in 0..MaxAvail |-> SeqsUpTo(Items, n)]

GoodData(request) ==
    { <<KV("Get", JMap(<<KV(request.className, JList(items))>>))>> :
        items \in ClassLists[EffLimit(request)] }

\* a Do that is not bound to the request context (mutant)
WeaviateOutcomesNoCtx(done, request) ==
    {WeaviateResp("error", c, <<>>) : c \in NetCauses}
    \cup {WeaviateResp("ok", "", d) : d \in BadData(request)}
    \cup {WeaviateResp("ok", "", d) : d \in GoodData(request)}

\* what Do(ctx) can yield: once ctx is done the client returns ctx's error
WeaviateOutcomes(done, request) ==
    IF done
    THEN {WeaviateResp("error", CtxCanceled, <<>>)}
    ELSE {WeaviateResp("error", c, <<>>) : c \in NetCauses}
         \cup {WeaviateResp("ok", "", d) : d \in BadData(request)}
         \cup {WeaviateResp("ok", "", d) : d \in GoodData(request)}

\* the loop, dropping a text it has already collected (mutant)
RECURSIVE CollectChunksDedup(_, _, _)
CollectChunksDedup(class, from, chunks) ==
    IF from > Len(class) THEN chunks
    ELSE LET item == class[from]
         IN  IF item.t # "map"
             THEN CollectChunksDedup(class, from + 1, chunks)
             ELSE LET text == Lookup(item.m, "text")
                  IN  IF /\ text.t = "string"
                         /\ text.s # <<>>
                         /\ \A k \in 1..Len(chunks) : chunks[k] # text.s
                      THEN CollectChunksDedup(class, from + 1, Append(chunks, text.s))
                      ELSE CollectChunksDedup(class, from + 1, chunks)

\* the loop of extractTextChunks over class[from..]
RECURSIVE CollectChunks(_, _, _)
CollectChunks(class, from, chunks) ==
    IF from > Len(class) THEN chunks
    ELSE LET item == class[from]
         IN  IF item.t # "map"
             THEN CollectChunks(class, from + 1, chunks)
             ELSE LET text == Lookup(item.m, "text")
                  IN  IF text.t = "string" /\ text.s # <<>>
                      THEN CollectChunks(class, from + 1, Append(chunks, text.s))
                      ELSE CollectChunks(class, from + 1, chunks)

\* extractTextChunks that takes a missing class list for no matches (mutant)
extractTextChunksLenient(data, collectionName) ==
    LET get == Lookup(data, "Get")
    IN  IF get.t # "map"
        THEN Ok(<<>>)
        ELSE LET class == Lookup(get.m, collectionName)
             IN  IF class.t # "list"
                 THEN Ok(<<>>)
                 ELSE Ok(CollectChunks(class.l, 1, <<>>))

extractTextChunks(data, collectionName) ==
    LET get == Lookup(data, "Get")
    IN  IF get.t # "map"
        THEN Fail(<<>>, NewErr("invalid GraphQL response: missing Get field"))
        ELSE LET class == Lookup(get.m, collectionName)
             IN  IF class.t # "list"
                 THEN Fail(<<>>, NewErr("invalid GraphQL response: missing collection"))
                 ELSE Ok(CollectChunks(class.l, 1, <<>>))

\* WeaviateService.SearchSimilar, from the return of Do(ctx) on
SearchSimilar(resp) ==
    IF resp.kind = "error"
    THEN Fail(<<>>, Wrap("Weaviate query failed", NewErr(resp.cause)))
    ELSE extractTextChunks(resp.data, CollectionName)

-----------------------------------------------------------------------------
(* Generation service (vLLM) *)

VLLMResp(kind, cause, choices) == [kind |-> kind, cause |-> cause, choices |-> choices]

\* openai.ChatCompletionRequest built by GenerateResponse
ChatCompletionRequest(prompt) ==
    [messages |-> <<[role |-> "user", content |-> prompt]>>,
     stop |-> <<"<|eot_id|>">>]

\* what CreateChatCompletion(ctx, req) can yield
VLLMOutcomes(done) ==
    IF done
    THEN {VLLMResp("error", CtxCanceled, <<>>)}
    ELSE {VLLMResp("error", c, <<>>) : c \in NetCauses}
         \cup {VLLMResp("ok", "", cs) : cs \in SeqsUpTo(Contents, MaxChoices)}

\* GenerateResponse returning the last choice (mutant)
GenerateResponseLast(resp) ==
    IF resp.kind = "error"
    THEN Fail("", Wrap("vLLM completion failed", NewErr(resp.cause)))
    ELSE IF Len(resp.choices) = 0
    THEN Fail("", NewErr("no completion choices returned from vLLM"))
    ELSE Ok(resp.choices[Len(resp.choices)])

\* VLLMService.GenerateResponse, from the return of CreateChatCompletion on
GenerateResponse(resp) ==
    IF resp.kind = "error"
    THEN Fail("", Wrap("vLLM completion failed", NewErr(resp.cause)))
    ELSE IF Len(resp.choices) = 0
    THEN Fail("", NewErr("no completion choices returned from vLLM"))
    ELSE Ok(resp.choices[1])

-----------------------------------------------------------------------------
(* Prompt *)

TemplateSystem == "<|begin_of_text|><|start_header_id|>system<|end_header_id|>\nUse the following pieces of context to answer the question at the end.\nIf you don't know the answer, just say that you don't know, don't try to make up an answer.\nContext:\n"
TemplateUser == "\n<|eot_id|><|start_header_id|>user<|end_header_id|>\nQuestion:\n"
TemplateAssistant == "\n<|eot_id|><|start_header_id|>assistant<|end_header_id|>\n"

\* fmt.Sprintf(promptTemplate, contextStr, query)
promptTemplate(contextStr, query) ==
    <<TemplateSystem>> \o contextStr \o <<TemplateUser>> \o query
        \o <<TemplateAssistant>>

\* fmt.Sprintf("--- Context Chunk %d ---\n%s\n\n", n, chunk)
ChunkBlock(n, chunk) ==
    <<ChunkMarker, SP>> \o Itoa(n) \o <<" ---\n">> \o chunk \o <<"\n\n">>

\* the loop of buildContext over chunks[i..]
RECURSIVE WriteChunks(_, _, _)
WriteChunks(chunks, i, builder) ==
    IF i > Len(chunks) THEN builder
    ELSE WriteChunks(chunks, i + 1, builder \o ChunkBlock(i, chunks[i]))

\* the loop numbering the chunks from 0 (mutant)
RECURSIVE WriteChunksZeroBased(_, _, _)
WriteChunksZeroBased(chunks, i, builder) ==
    IF i > Len(chunks) THEN builder
    ELSE WriteChunksZeroBased(chunks, i + 1,
                              builder \o ChunkBlock(i - 1, chunks[i]))

buildContextZeroBased(chunks) ==
    IF Len(chunks) = 0 THEN <<Sentinel>> ELSE WriteChunksZeroBased(chunks, 1, <<>>)

buildContext(chunks) ==
    IF Len(chunks) = 0 THEN <<Sentinel>> ELSE WriteChunks(chunks, 1, <<>>)

-----------------------------------------------------------------------------
(* RAGService.Query.  An invocation st holds Query's locals, its position, *)
(* the requests it has sent to each service, the stages it has invoked in  *)
(* order, and how each downstream call ended.                              *)

Stages == {"embed", "search", "generate"}
InFlight == {"embed", "search", "generate"}

Idle ==
    [pc |-> "idle", query |-> <<>>, embedding |-> <<>>, contextChunks |-> <<>>,
     finalPrompt |-> <<>>, answer |-> "", err |-> NilErr,
     sent |-> [embed |-> <<>>, search |-> <<>>, generate |-> <<>>],
     trace |-> <<>>,
     outcome |-> [s \in Stages |-> "none"]]

\* return answer, err
Return(st, answer, err) ==
    [st EXCEPT !.pc = "responded", !.answer = answer, !.err = err]

\* Query entered: s.tei.GetEmbedding(ctx, query) sends its request
QueryStart(query) ==
    [Idle EXCEPT !.pc = "embed", !.query = query,
                 !.sent.embed = <<TEIRequest(query)>>,
                 !.trace = <<"embed">>]

\* Query that asks the embedding service once more after a failure (mutant)
QueryEmbeddedRetry(st, r) ==
    IF r.err # NilErr
    THEN IF Len(st.sent.embed) < 2
         THEN [st EXCEPT !.sent.embed = Append(@, TEIRequest(st.query)),
                         !.trace = Append(@, "embed")]
         ELSE Return([st EXCEPT !.outcome.embed = "failed"], "",
                     Wrap("failed to get embedding", r.err))
    ELSE [st EXCEPT !.pc = "search",
                    !.outcome.embed = "ok",
                    !.embedding = r.val,
                    !.sent.search = Append(@, SearchRequest(r.val)),
                    !.trace = Append(@, "search")]

\* GetEmbedding returned r: fail, or go on to s.weaviate.SearchSimilar
QueryEmbedded(st, r) ==
    IF r.err # NilErr
    THEN Return([st EXCEPT !.outcome.embed = "failed"], "",
                Wrap("failed to get embedding", r.err))
    ELSE [st EXCEPT !.pc = "search",
                    !.outcome.embed = "ok",
                    !.embedding = r.val,
                    !.sent.search = Append(@, SearchRequest(r.val)),
                    !.trace = Append(@, "search")]

\* contextStr, finalPrompt, and s.vllm.GenerateResponse sends its request
QueryGenerate(st, contextChunks) ==
    LET contextStr == buildContext(contextChunks)
        finalPrompt == promptTemplate(contextStr, st.query)
    IN  [st EXCEPT !.pc = "generate",
                   !.contextChunks = contextChunks,
                   !.finalPrompt = finalPrompt,
                   !.sent.generate = Append(@, ChatCompletionRequest(finalPrompt)),
                   !.trace = @ \o <<"build", "generate">>]

\* Query that answers from an empty context when the search fails (mutant)
QuerySearchedFallback(st, r) ==
    IF r.err # NilErr
    THEN QueryGenerate([st EXCEPT !.outcome.search = "failed"], <<>>)
    ELSE QueryGenerate([st EXCEPT !.outcome.search = "ok"], r.val)

\* SearchSimilar returned r: fail, or build the prompt and go on
QuerySearched(st, r) ==
    IF r.err # NilErr
    THEN Return([st EXCEPT !.outcome.search = "failed"], "",
                Wrap("failed to search Weaviate", r.err))
    ELSE QueryGenerate([st EXCEPT !.outcome.search = "ok"], r.val)

\* GenerateResponse returned r
QueryGenerated(st, r) ==
    IF r.err # NilErr
    THEN Return([st EXCEPT !.outcome.generate = "failed"], "",
                Wrap("failed to generate answer", r.err))
    ELSE Return([st EXCEPT !.outcome.generate = "ok"], r.val, NilErr)

-----------------------------------------------------------------------------
(* The boundary: QueryHandler.Handle and server.customErrorHandler *)

HTTPResponse(status, resp, error) ==
    [status |-> status, body |-> [response |-> resp, error |-> error]]

NoResponse == HTTPResponse(0, "", <<>>)

\* a request body: JSON that parses into QueryRequest, or not
Bodies ==
    {[valid |-> FALSE, query |-> <<>>]}
    \cup {[valid |-> TRUE, query |-> q] : q \in Queries}

NoRequest == [valid |-> FALSE, query |-> <<>>]

\* Handle that checks only that the body parses (mutant)
ValidateParseOnly(body) ==
    IF ~body.valid
    THEN FiberError(StatusBadRequest, "Invalid request body")
    ELSE NilErr

\* the checks of Handle before it calls Query
Validate(body) ==
    IF ~body.valid
    THEN FiberError(StatusBadRequest, "Invalid request body")
    ELSE IF body.query = <<>>
    THEN FiberError(StatusBadRequest, "Query cannot be empty")
    ELSE NilErr

\* c.Status(code).JSON(models.ErrorResponse{Error: err.Error()})
customErrorHandler(err) ==
    LET code == IF err.fiberCode # 0 THEN err.fiberCode
                ELSE StatusInternalServerError
    IN  HTTPResponse(code, "", err.chain)

\* what Handle's return makes of Query's (answer, err)
HandleReturn(answer, err) ==
    IF err # NilErr
    THEN customErrorHandler(err)
    ELSE HTTPResponse(StatusOK, answer, <<>>)

\* the response once the invocation st has returned, none before
Respond(st) ==
    IF st.pc = "responded" THEN HandleReturn(st.answer, st.err) ELSE NoResponse

NoResp == [stage |-> "none", tei |-> TEIResp("", "", 0, FALSE, <<>>),
           weaviate |-> WeaviateResp("", "", <<>>),
           vllm |-> VLLMResp("", "", <<>>)]

-----------------------------------------------------------------------------
(* Invocations running at the same time.  server.New builds one RAGService *)
(* over one client per service; its fields are set there and only read     *)
(* afterwards.  Each call of Query has its own locals (embedding,          *)
(* contextChunks, contextStr, finalPrompt, answer, err).  Each invocation  *)
(* is served by stub services: the responses its three calls get are fixed *)
(* beforehand.                                                             *)

Invocations == {1, 2}

ConcQueries == { <<"q">>, <<SP, "q", ChunkMarker>> }

\* stub responses of the embedding service: the call fails, or one vector
ConcTEI ==
    {r \in TEIOutcomes(FALSE) :
        r.kind = "error" \/ (r.decodable /\ r.body = <<(<<5>>)>>)}

\* stub responses of the search service: the call fails, no Get object,
\* no match, one passage, two passages
ConcWeaviate ==
    {r \in WeaviateOutcomes(FALSE, SearchRequest(<<5>>)) :
        \/ r.kind = "error"
        \/ r.data = <<>>
        \/ /\ r.data \in GoodData(SearchRequest(<<5>>))
           /\ Lookup(Lookup(r.data, "Get").m, CollectionName).l \in
                 { <<>>,
                   <<JMap(<<KV("text", JStr(<<"a">>))>>)>>,
                   <<JMap(<<KV("text", JStr(<<ChunkMarker, "b">>))>>),
                     JMap(<<KV("text", JStr(<<"a">>))>>)>> }}

\* stub responses of the generation service: the call fails, one choice,
\* two choices
ConcVLLM ==
    {r \in VLLMOutcomes(FALSE) :
        \/ r.kind = "error"
        \/ r.choices \in { <<"I don't know.">>,
                           <<"Both movies are science fiction.", "I don't know.">> }}

\* what one invocation is given: its query and the stubs' responses
Scripts ==
    [query : ConcQueries, tei : ConcTEI, weaviate : ConcWeaviate, vllm : ConcVLLM]

NoScript ==
    [query |-> <<>>, tei |-> NoResp.tei, weaviate |-> NoResp.weaviate,
     vllm |-> NoResp.vllm]

\* nothing is served concurrently
NoConc ==
    [script |-> [i \in Invocations |-> NoScript],
     inv |-> [i \in Invocations |-> Idle]]

\* locals kept in fields of the shared RAGService: what invocation i
\* retrieved and built overwrites what the others hold (mutant)
SetLocalsShared(invs, i, st) ==
    [j \in DOMAIN invs |->
        IF j = i THEN st
        ELSE [invs[j] EXCEPT !.contextChunks = st.contextChunks,
                             !.finalPrompt = st.finalPrompt]]

\* Query's locals live in the frame of the call: invocation i moving to st
\* changes nothing of the others
SetLocals(invs, i, st) == [invs EXCEPT ![i] = st]

-----------------------------------------------------------------------------
(* Actions *)

Init ==
    /\ req = NoRequest
    /\ ctxDone = FALSE
    /\ inv = Idle
    /\ lastResp = NoResp
    /\ response = NoResponse
    /\ conc = NoConc

\* POST /query arrives: Handle parses and checks it, and on success enters
\* Query, which sends the embedding request
Handle(body) ==
    /\ inv.pc \in {"idle", "responded"}
    /\ req' = body
    /\ ctxDone' = FALSE
    /\ lastResp' = NoResp
    /\ LET e == Validate(body)
       IN  IF e # NilErr
           THEN /\ inv' = Return(Idle, "", e)
                /\ response' = customErrorHandler(e)
           ELSE /\ inv' = QueryStart(body.query)
                /\ response' = NoResponse
    /\ UNCHANGED conc

\* the embedding call returns
EmbedReturn(resp) ==
    /\ inv.pc = "embed"
    /\ lastResp' = [NoResp EXCEPT !.stage = "embed", !.tei = resp]
    /\ LET st == QueryEmbedded(inv, GetEmbedding(resp))
       IN  /\ inv' = st
           /\ response' = Respond(st)
    /\ UNCHANGED <<req, ctxDone, conc>>

\* the search call returns
SearchReturn(resp) ==
    /\ inv.pc = "search"
    /\ lastResp' = [NoResp EXCEPT !.stage = "search", !.weaviate = resp]
    /\ LET st == QuerySearched(inv, SearchSimilar(resp))
       IN  /\ inv' = st
           /\ response' = Respond(st)
    /\ UNCHANGED <<req, ctxDone, conc>>

\* the generation call returns
GenerateReturn(resp) ==
    /\ inv.pc = "generate"
    /\ lastResp' = [NoResp EXCEPT !.stage = "generate", !.vllm = resp]
    /\ LET st == QueryGenerated(inv, GenerateResponse(resp))
       IN  /\ inv' = st
           /\ response' = Respond(st)
    /\ UNCHANGED <<req, ctxDone, conc>>

\* the request context is cancelled while a downstream call is in flight
Cancel ==
    /\ inv.pc \in InFlight
    /\ ~ctxDone
    /\ ctxDone' = TRUE
    /\ UNCHANGED <<req, inv, lastResp, response, conc>>

HandleStep == \E body \in Bodies : Handle(body)
EmbedStep ==
    /\ inv.pc = "embed"
    /\ \E resp \in TEIOutcomes(ctxDone) : EmbedReturn(resp)
SearchStep ==
    /\ inv.pc = "search"
    /\ \E resp \in WeaviateOutcomes(ctxDone, Last(inv.sent.search)) :
          SearchReturn(resp)
GenerateStep ==
    /\ inv.pc = "generate"
    /\ \E resp \in VLLMOutcomes(ctxDone) : GenerateReturn(resp)

Next ==
    \/ HandleStep
    \/ EmbedStep
    \/ SearchStep
    \/ GenerateStep
    \/ Cancel

Spec == Init /\ [][Next]_vars

\* every downstream call returns: each client gives up at its timeout or
\* when the context is done
FairSpec ==
    /\ Spec
    /\ WF_vars(EmbedStep)
    /\ WF_vars(SearchStep)
    /\ WF_vars(GenerateStep)

-----------------------------------------------------------------------------
(* Concurrent invocations: each request is handled on its own goroutine,   *)
(* and the steps of the invocations interleave in any order.               *)

single == <<req, ctxDone, inv, lastResp, response>>

ConcInit ==
    /\ req = NoRequest
    /\ ctxDone = FALSE
    /\ inv = Idle
    /\ lastResp = NoResp
    /\ response = NoResponse
    /\ conc \in {[script |-> s, inv |-> [i \in Invocations |-> Idle]] :
                    s \in [Invocations -> Scripts]}

\* request i arrives: Handle checks it and enters Query
ConcHandle(i) ==
    /\ conc.inv[i].pc = "idle"
    /\ Validate([valid |-> TRUE, query |-> conc.script[i].query]) = NilErr
    /\ conc' = [conc EXCEPT
                  !.inv = SetLocals(@, i, QueryStart(conc.script[i].query))]
    /\ UNCHANGED single

\* the embedding call of invocation i returns
ConcEmbedReturn(i) ==
    /\ conc.inv[i].pc = "embed"
    /\ conc' = [conc EXCEPT
                  !.inv = SetLocals(@, i,
                              QueryEmbedded(conc.inv[i],
                                            GetEmbedding(conc.script[i].tei)))]
    /\ UNCHANGED single

\* the search call of invocation i returns
ConcSearchReturn(i) ==
    /\ conc.inv[i].pc = "search"
    /\ conc' = [conc EXCEPT
                  !.inv = SetLocals(@, i,
                              QuerySearched(conc.inv[i],
                                            SearchSimilar(conc.script[i].weaviate)))]
    /\ UNCHANGED single

\* the generation call of invocation i returns
ConcGenerateReturn(i) ==
    /\ conc.inv[i].pc = "generate"
    /\ conc' = [conc EXCEPT
                  !.inv = SetLocals(@, i,
                              QueryGenerated(conc.inv[i],
                                             GenerateResponse(conc.script[i].vllm)))]
    /\ UNCHANGED single

ConcNext ==
    \E i \in Invocations :
        \/ ConcHandle(i)
        \/ ConcEmbedReturn(i)
        \/ ConcSearchReturn(i)
        \/ ConcGenerateReturn(i)

ConcSpec == ConcInit /\ [][ConcNext]_vars

-----------------------------------------------------------------------------
(* Reading a failure: the stage and the kind of an error Query returned,   *)
(* told from its messages.                                                 *)

Range(f) == {f[i] : i \in DOMAIN f}

IsPrefix(s, t) == Len(s) <= Len(t) /\ SubSeq(t, 1, Len(s)) = s

Pipeline == <<"embed", "search", "build", "generate">>

StageMessage(stage) ==
    CASE stage = "embed" -> "failed to get embedding"
      [] stage = "search" -> "failed to search Weaviate"
      [] stage = "generate" -> "failed to generate answer"

\* the stage a failure names, "none" if it names none
FailedStage(err) ==
    IF err.chain = <<>> THEN "none"
    ELSE IF \E s \in Stages : Head(err.chain) = StageMessage(s)
    THEN CHOOSE s \in Stages : Head(err.chain) = StageMessage(s)
    ELSE "none"

Kind(err) ==
    LET stage == FailedStage(err)
        inner == IF Len(err.chain) >= 2 THEN err.chain[2] ELSE ""
    IN  CASE stage = "embed" -> "EmbeddingUnavailable"
          [] stage = "search" /\ inner = "Weaviate query failed" ->
                "SearchUnavailable"
          [] stage = "search"
               /\ inner \in {"invalid GraphQL response: missing Get field",
                             "invalid GraphQL response: missing collection"} ->
                "MalformedSearchResponse"
          [] stage = "generate" /\ inner = "vLLM completion failed" ->
                "GenerationUnavailable"
          [] stage = "generate"
               /\ inner = "no completion choices returned from vLLM" ->
                "EmptyGeneration"
          [] OTHER -> "none"

Returned == inv.pc = "responded" /\ inv.trace # <<>>
Failed == Returned /\ inv.err # NilErr

-----------------------------------------------------------------------------
(* C1: in every invocation of Query the stages run in the order embed,     *)
(* search, build prompt, generate; a stage is invoked only after every     *)
(* earlier stage has succeeded; after the first failure no later stage is  *)
(* invoked and Query returns that failure.  When the search call fails     *)
(* (times out), neither the prompt builder nor the generator is invoked    *)
(* and the failure is SearchUnavailable.                                   *)
C1_StagesInOrder ==
    /\ IsPrefix(inv.trace, Pipeline)
    /\ "search" \in Range(inv.trace) => inv.outcome.embed = "ok"
    /\ "build" \in Range(inv.trace) =>
          inv.outcome.embed = "ok" /\ inv.outcome.search = "ok"
    /\ "generate" \in Range(inv.trace) =>
          inv.outcome.embed = "ok" /\ inv.outcome.search = "ok"
    /\ \A s \in Stages :
          inv.outcome[s] = "failed" =>
              /\ Last(inv.trace) = s
              /\ Failed
              /\ FailedStage(inv.err) = s
    /\ (lastResp.stage = "search" /\ lastResp.weaviate.kind = "error") =>
          /\ inv.trace = <<"embed", "search">>
          /\ Failed
          /\ Kind(inv.err) = "SearchUnavailable"

\* the search call timed out and Query returned without building a prompt
C1_Witness ==
    /\ lastResp.stage = "search"
    /\ lastResp.weaviate.kind = "error"
    /\ lastResp.weaviate.cause = "timeout"
    /\ inv.pc = "responded"
    /\ inv.trace = <<"embed", "search">>
    /\ inv.finalPrompt = <<>>

-----------------------------------------------------------------------------
(* C2: in one invocation each downstream service is called at most once,   *)
(* whether the invocation succeeds or fails: a failure is not retried, it  *)
(* ends the invocation, and a failed search is never followed by a         *)
(* generation request from an empty context.                               *)
C2_SingleAttempt ==
    /\ \A s \in Stages :
          /\ Len(inv.sent[s]) <= 1
          /\ Cardinality({i \in 1..Len(inv.trace) : inv.trace[i] = s}) <= 1
          /\ inv.outcome[s] = "failed" =>
                /\ inv.pc = "responded"
                /\ inv.err # NilErr
                /\ inv.answer = ""
                /\ response.status = StatusInternalServerError
    /\ inv.outcome.search = "failed" =>
          /\ inv.sent.generate = <<>>
          /\ inv.finalPrompt = <<>>

\* the embedding call failed and the invocation ended after that one call
C2_Witness ==
    /\ inv.pc = "responded"
    /\ inv.outcome.embed = "failed"
    /\ Len(inv.sent.embed) = 1
    /\ inv.sent.search = <<>>
    /\ inv.sent.generate = <<>>

-----------------------------------------------------------------------------
(* C3 *)

\* strings.TrimSpace on the token text
RECURSIVE TrimLeft(_)
TrimLeft(s) == IF s # <<>> /\ Head(s) = SP THEN TrimLeft(Tail(s)) ELSE s

RECURSIVE TrimRight(_)
TrimRight(s) ==
    IF s # <<>> /\ Last(s) = SP THEN TrimRight(SubSeq(s, 1, Len(s) - 1)) ELSE s

TrimSpace(s) == TrimRight(TrimLeft(s))

DownstreamCalled == \E s \in Stages : inv.sent[s] # <<>>

\* C3 as stated: a query reaches the pipeline only if it has at least one
\* character after trimming; a request whose query is empty or blank is
\* rejected and no downstream service is called.
C3_TrimmedQueryOnly ==
    /\ inv.trace # <<>> => Len(TrimSpace(inv.query)) >= 1
    /\ (inv.pc # "idle" /\ req.valid /\ TrimSpace(req.query) = <<>>) =>
          /\ response.status = StatusBadRequest
          /\ ~DownstreamCalled

\* C3 as amended: a query reaches the pipeline exactly when the body parses
\* and the query is not the empty string, and it is passed on untrimmed;
\* an empty query or an unparsable body is rejected with status 400 and no
\* downstream service is called.
C3_NonEmptyQueryOnly ==
    /\ inv.trace # <<>> =>
          /\ req.valid
          /\ Len(req.query) >= 1
          /\ inv.query = req.query
          /\ inv.sent.embed[1].inputs = <<req.query>>
    /\ (inv.pc # "idle" /\ (~req.valid \/ req.query = <<>>)) =>
          /\ inv.pc = "responded"
          /\ response.status = StatusBadRequest
          /\ inv.trace = <<>>
          /\ ~DownstreamCalled
    /\ (inv.pc # "idle" /\ req.valid /\ req.query # <<>>) => DownstreamCalled

\* an empty query was rejected before any downstream call
C3_Witness ==
    /\ inv.pc = "responded"
    /\ req.valid
    /\ req.query = <<>>
    /\ response.status = StatusBadRequest
    /\ ~DownstreamCalled

-----------------------------------------------------------------------------
(* C4: when the request context is cancelled while the embedding, search   *)
(* or generation call is in flight, that call is aborted: it returns the   *)
(* context's error and not a result, Query starts no further stage and     *)
(* sends no further request, and the invocation ends in failure.           *)
C4_CancelAborts ==
    /\ [][(ctxDone /\ inv.pc \in InFlight) =>
             /\ inv'.trace = inv.trace
             /\ inv'.sent = inv.sent
             /\ \/ inv'.pc = inv.pc
                \/ /\ inv'.pc = "responded"
                   /\ inv'.err # NilErr
                   /\ FailedStage(inv'.err) = inv.pc
                   /\ Last(inv'.err.chain) = CtxCanceled]_vars
    /\ (ctxDone /\ inv.pc \in InFlight) ~> (inv.pc = "responded" /\ inv.err # NilErr)

\* the context was cancelled during the search call, which was aborted
C4_Witness ==
    /\ ctxDone
    /\ inv.pc = "responded"
    /\ lastResp.stage = "search"
    /\ lastResp.weaviate.cause = CtxCanceled
    /\ inv.trace = <<"embed", "search">>
    /\ inv.err # NilErr

-----------------------------------------------------------------------------
(* C5: every failure Query returns starts with the message of the stage    *)
(* that failed, which names that stage and no other, and the response the  *)
(* boundary sends for it carries none of the messages of the underlying    *)
(* cause.                                                                  *)
C5_StageNamedCauseHidden ==
    Failed =>
        /\ FailedStage(inv.err) \in Stages
        /\ inv.outcome[FailedStage(inv.err)] = "failed"
        /\ \A i \in 2..Len(inv.err.chain) :
              inv.err.chain[i] \notin Range(response.body.error)

-----------------------------------------------------------------------------
(* C6: GetEmbedding never succeeds with a zero-length embedding.  When the *)
(* call errors, the status is not 200, the body does not decode, the batch *)
(* is empty or its first vector is empty, the invocation fails with        *)
(* EmbeddingUnavailable and sends no search request; otherwise the         *)
(* embedding is the first vector of the batch.  No search request carries  *)
(* an empty vector.                                                        *)
C6_NoEmptyEmbedding ==
    /\ lastResp.stage = "embed" =>
          LET r == lastResp.tei
              unusable ==
                  \/ r.kind = "error"
                  \/ r.status # StatusOK
                  \/ ~r.decodable
                  \/ r.body = <<>>
                  \/ r.body[1] = <<>>
          IN  IF unusable
              THEN /\ Failed
                   /\ Kind(inv.err) = "EmbeddingUnavailable"
                   /\ inv.embedding = <<>>
                   /\ inv.sent.search = <<>>
              ELSE /\ inv.pc = "search"
                   /\ inv.embedding = r.body[1]
                   /\ Len(inv.sent.search) = 1
    /\ "search" \in Range(inv.trace) => Len(inv.embedding) >= 1
    /\ \A i \in 1..Len(inv.sent.search) :
          /\ Len(inv.sent.search[i].nearVector) >= 1
          /\ Len(inv.sent.search[i].nearVector) = Len(inv.embedding)

\* the service answered 200 with a batch whose first vector is empty
C6_Witness ==
    /\ lastResp.stage = "embed"
    /\ lastResp.tei.kind = "http"
    /\ lastResp.tei.status = StatusOK
    /\ lastResp.tei.decodable
    /\ Len(lastResp.tei.body) >= 1
    /\ lastResp.tei.body[1] = <<>>
    /\ Failed
    /\ inv.sent.search = <<>>

-----------------------------------------------------------------------------
(* C7 *)

\* the response has a "Get" object holding a list under the collection name
StructurallyValid(data) ==
    \E i \in 1..Len(data) :
        /\ data[i].k = "Get"
        /\ data[i].v.t = "map"
        /\ \E j \in 1..Len(data[i].v.m) :
              /\ data[i].v.m[j].k = CollectionName
              /\ data[i].v.m[j].v.t = "list"

\* the class list of a structurally valid response
ClassList(data) ==
    LET get == data[CHOOSE i \in 1..Len(data) : data[i].k = "Get"].v.m
    IN  get[CHOOSE j \in 1..Len(get) : get[j].k = CollectionName].v.l

\* C7: a search response without the "Get" object, or without the list of
\* the configured collection, makes the invocation fail with
\* MalformedSearchResponse, which differs from the SearchUnavailable of a
\* failed call; such a response never yields a passage sequence, and no
\* generation request follows it.
C7_MalformedIsFailure ==
    lastResp.stage = "search" =>
        LET r == lastResp.weaviate
        IN  /\ (r.kind = "ok" /\ ~StructurallyValid(r.data)) =>
                  /\ Failed
                  /\ Kind(inv.err) = "MalformedSearchResponse"
                  /\ inv.contextChunks = <<>>
                  /\ inv.sent.generate = <<>>
                  /\ \A c \in NetCauses \cup {CtxCanceled} :
                        inv.err # Wrap("failed to search Weaviate",
                                       Wrap("Weaviate query failed", NewErr(c)))
            /\ r.kind = "error" =>
                  /\ Failed
                  /\ Kind(inv.err) = "SearchUnavailable"

\* the response had no "Get" object and the invocation failed
C7_Witness ==
    /\ lastResp.stage = "search"
    /\ lastResp.weaviate.kind = "ok"
    /\ lastResp.weaviate.data = <<>>
    /\ Failed
    /\ Kind(inv.err) = "MalformedSearchResponse"

-----------------------------------------------------------------------------
(* C8: GenerateResponse returns the content of the first choice when the   *)
(* service returns at least one, fails with EmptyGeneration when it        *)
(* returns none, and fails with GenerationUnavailable when the call fails; *)
(* an invocation whose stages all succeed returns that first content       *)
(* unchanged, and the response carries it.                                 *)
C8_FirstChoice ==
    lastResp.stage = "generate" =>
        LET r == lastResp.vllm
        IN  /\ inv.pc = "responded"
            /\ r.kind = "error" =>
                  /\ Kind(inv.err) = "GenerationUnavailable"
                  /\ inv.answer = ""
            /\ (r.kind = "ok" /\ r.choices = <<>>) =>
                  /\ Kind(inv.err) = "EmptyGeneration"
                  /\ inv.answer = ""
            /\ (r.kind = "ok" /\ r.choices # <<>>) =>
                  /\ inv.err = NilErr
                  /\ inv.answer = Head(r.choices)
                  /\ response = HTTPResponse(StatusOK, Head(r.choices), <<>>)

\* the service returned two different choices and the first was the answer
C8_Witness ==
    /\ lastResp.stage = "generate"
    /\ Len(lastResp.vllm.choices) = 2
    /\ lastResp.vllm.choices[1] # lastResp.vllm.choices[2]
    /\ inv.pc = "responded"
    /\ inv.answer = lastResp.vllm.choices[1]

-----------------------------------------------------------------------------
(* C9 *)

\* the element is an object with a non-empty string under "text"
HasText(item) ==
    /\ item.t = "map"
    /\ \E i \in 1..Len(item.m) :
          /\ item.m[i].k = "text"
          /\ item.m[i].v.t = "string"
          /\ item.m[i].v.s # <<>>

TextOf(item) == item.m[CHOOSE i \in 1..Len(item.m) : item.m[i].k = "text"].v.s

-----------------------------------------------------------------------------
(* C10 *)

Count(x, s) == Cardinality({i \in 1..Len(s) : s[i] = x})

RECURSIVE SumTo(_, _)
SumTo(f, n) == IF n = 0 THEN 0 ELSE f[n] + SumTo(f, n - 1)

PromptBuilt == "build" \in Range(inv.trace)

\* C10 as stated: with no passages the prompt holds the sentinel and no
\* chunk marker anywhere; otherwise it holds exactly len(ps) chunk markers.
C10_MarkersCountPassages ==
    PromptBuilt =>
        /\ Count(ChunkMarker, inv.finalPrompt) = Len(inv.contextChunks)
        /\ inv.contextChunks = <<>> => Count(Sentinel, inv.finalPrompt) = 1

\* C10 as amended: the prompt sent to the generator is the template around
\* a context section and the query, both verbatim.  With no passages the
\* context section is the sentinel alone.  Otherwise it is len(ps) blocks
\* in input order, block i being the marker, the number i, and passage i
\* verbatim.  The chunk marker occurs in the prompt len(ps) times plus once
\* for each occurrence inside the query or a passage.
C10_PromptLayout ==
    PromptBuilt =>
        LET P == inv.finalPrompt
            q == inv.query
            ps == inv.contextChunks
            n == Len(P)
            C == SubSeq(P, 2, n - Len(q) - 2)
            \* a block is five tokens around its passage
            size == [i \in 1..Len(ps) |-> Len(ps[i]) + 5]
            off(i) == SumTo(size, i - 1)
        IN  /\ Len(inv.sent.generate) = 1
            /\ inv.sent.generate[1].messages = <<[role |-> "user", content |-> P]>>
            /\ P[1] = TemplateSystem
            /\ P[n - Len(q) - 1] = TemplateUser
            /\ SubSeq(P, n - Len(q), n - 1) = q
            /\ P[n] = TemplateAssistant
            /\ ps = <<>> => C = <<Sentinel>>
            /\ ps # <<>> =>
                  /\ Len(C) = SumTo(size, Len(ps))
                  /\ \A i \in 1..Len(ps) :
                        /\ C[off(i) + 1] = ChunkMarker
                        /\ C[off(i) + 2] = SP
                        /\ C[off(i) + 3] = ToString(i)
                        /\ C[off(i) + 4] = " ---\n"
                        /\ SubSeq(C, off(i) + 5, off(i) + 4 + Len(ps[i])) = ps[i]
                        /\ C[off(i) + 5 + Len(ps[i])] = "\n\n"
            /\ Count(ChunkMarker, P) =
                  Len(ps) + Count(ChunkMarker, q)
                  + SumTo([i \in 1..Len(ps) |-> Count(ChunkMarker, ps[i])], Len(ps))

\* a prompt built, for a query without the marker, from two passages of
\* which one quotes the marker
C10_Witness ==
    /\ inv.pc = "generate"
    /\ Len(inv.contextChunks) = 2
    /\ inv.contextChunks[1] # inv.contextChunks[2]
    /\ Count(ChunkMarker, inv.query) = 0
    /\ Count(ChunkMarker, inv.finalPrompt) = 3

-----------------------------------------------------------------------------
(* C11 *)

\* the texts of the matches of class that have one, in the order of class
KeptTexts(class) ==
    LET kept == {i \in 1..Len(class) : HasText(class[i])}
        at(k) == CHOOSE i \in kept : Cardinality({j \in kept : j <= i}) = k
    IN  [k \in 1..Cardinality(kept) |-> TextOf(class[at(k)])]

\* what the stub responses sc make Query return: <<kind of failure, answer>>
Expected(sc) ==
    IF sc.tei.kind = "error" THEN <<"EmbeddingUnavailable", "">>
    ELSE IF sc.weaviate.kind = "error" THEN <<"SearchUnavailable", "">>
    ELSE IF ~StructurallyValid(sc.weaviate.data)
    THEN <<"MalformedSearchResponse", "">>
    ELSE IF sc.vllm.kind = "error" THEN <<"GenerationUnavailable", "">>
    ELSE IF sc.vllm.choices = <<>> THEN <<"EmptyGeneration", "">>
    ELSE <<"none", Head(sc.vllm.choices)>>

\* invocation i holds its own query, the passages of its own search
\* response, the prompt built from those two, and the result its own stub
\* responses give
OwnDataOnly(i) ==
    LET st == conc.inv[i]
        sc == conc.script[i]
    IN  /\ st.pc # "idle" =>
              /\ st.query = sc.query
              /\ st.sent.embed = <<TEIRequest(sc.query)>>
        /\ "search" \in Range(st.trace) => st.embedding = sc.tei.body[1]
        /\ "build" \in Range(st.trace) =>
              /\ st.contextChunks = KeptTexts(ClassList(sc.weaviate.data))
              /\ st.finalPrompt =
                    promptTemplate(buildContext(st.contextChunks), sc.query)
              /\ st.sent.generate = <<ChatCompletionRequest(st.finalPrompt)>>
        /\ "build" \notin Range(st.trace) =>
              /\ st.contextChunks = <<>>
              /\ st.finalPrompt = <<>>
              /\ st.sent.generate = <<>>
        /\ st.pc = "responded" => <<Kind(st.err), st.answer>> = Expected(sc)
        /\ st.pc # "responded" => st.err = NilErr /\ st.answer = ""

\* C11: with invocations running at the same time, in any interleaving of
\* their steps, a step of one invocation changes nothing of another; what
\* an invocation holds and returns (query, embedding, passages, prompt,
\* answer or failure) comes from its own query and the responses to its own
\* calls; and two invocations with the same query and the same responses
\* that have come equally far are in the same state.
C11_Independent ==
    /\ [][\A j \in Invocations :
             conc'.inv[j] # conc.inv[j] =>
                 \A k \in Invocations \ {j} : conc'.inv[k] = conc.inv[k]]_vars
    /\ [](\A i \in Invocations : OwnDataOnly(i))
    /\ [](\A i, j \in Invocations :
             (conc.script[i] = conc.script[j]
              /\ Len(conc.inv[i].trace) = Len(conc.inv[j].trace)
              /\ conc.inv[i].pc = conc.inv[j].pc) =>
                 conc.inv[i] = conc.inv[j])

\* invocation 2 has answered from an empty context while invocation 1, for
\* another query, waits for the generator with a prompt of two passages
C11_Witness ==
    /\ conc.script[1].query # conc.script[2].query
    /\ conc.inv[1].pc = "generate"
    /\ Len(conc.inv[1].contextChunks) = 2
    /\ conc.inv[2].pc = "responded"
    /\ conc.inv[2].err = NilErr
    /\ conc.inv[2].contextChunks = <<>>
    /\ conc.inv[2].finalPrompt # conc.inv[1].finalPrompt

====
